---- MODULE Spec2Model ----
(***************************************************************************)
(* Verification model of retail_insights (nlsql-mas): the LangGraph        *)
(* workflow (agents/graph.py and agents/nodes/*.py), the SQL validator     *)
(* (agents/nodes/validator.py) and the schema registry                     *)
(* (engine/schema_registry.py).                                            *)
(*                                                                         *)
(* Specifications:                                                          *)
(*   SpecValidator  validate_sql applied to one workflow state              *)
(*   SpecRouting    check_validation applied to one workflow state          *)
(*   SpecGraph      one run of the compiled graph                           *)
(*   SpecRegistry   threads calling get_schema / refresh_schema             *)
(*   SpecExecutor   concurrent execute_query calls on the shared connection *)
(*   SpecRequests   concurrent POST /query requests and their thread ids    *)
(***************************************************************************)
EXTENDS Integers, Sequences, FiniteSets, TLC

VARIABLES
    v_pc,       \* validator: "call" before validate_sql ran, "done" after, "idle" if unused
    v_in,       \* validator: the state handed to validate_sql
    v_out,      \* validator: the update validate_sql returns
    r_pc,       \* routing: "call" before check_validation ran, "done" after, "idle" if unused
    r_state,    \* routing: the state handed to check_validation (keys may be missing)
    r_result,   \* routing: the node name check_validation returns
    g_node,     \* graph: the node to run next, END, "raised" once a node raised, "idle" if unused
    g_state,    \* graph: the workflow state (RetailInsightsState)
    g_settings, \* graph: TRUE iff get_settings() has the attributes openai_model, openai_api_key
    g_path,     \* graph: the nodes that ran so far, in order
    g_resp,     \* graph: what POST /query answered for the run, None before it answered
    reg_obj,        \* registry: the fields of the SchemaRegistry object
    reg_th,     \* registry: per thread, its position and locals in the call it makes
    reg_now,    \* registry: the clock
    reg_committed, \* registry: the cache as the last finished install left it
    x_req,      \* executor: per execute_query call, the coroutine's and the pool task's position
    x_conn,     \* executor: the result set the shared DuckDB connection currently holds
    q_req,      \* requests: per POST /query request, its position, thread id and next node
    q_store     \* requests: the checkpointer, per thread id the writes made to its state

validatorVars == <<v_pc, v_in, v_out>>

routingVars == <<r_pc, r_state, r_result>>

graphVars == <<g_node, g_state, g_settings, g_path, g_resp>>

registryVars == <<reg_obj, reg_th, reg_now, reg_committed>>

executorVars == <<x_req, x_conn>>

requestVars == <<q_req, q_store>>

vars == <<v_pc, v_in, v_out, r_pc, r_state, r_result, g_node, g_state, g_settings, g_path,
          g_resp, reg_obj, reg_th, reg_now, reg_committed, x_req, x_conn, q_req, q_store>>

(***************************************************************************)
(* Optional values: Python None is the empty tuple, a value x is <<x>>.    *)
(***************************************************************************)
None == <<>>

Some(x) == <<x>>

Get(v) == v[1]

\* Python truthiness of an optional list: None and [] are both falsy
Truthy(v) == v # None /\ Get(v) # <<>>

(***************************************************************************)
(* Program constants                                                        *)
(***************************************************************************)
MAX_RETRIES == 3

MAX_RETRY_COUNT == 3

DEFAULT_LIMIT == 100

MAX_LIMIT == 1000

\* AST classes blocked by isinstance(ast, DANGEROUS_STATEMENT_TYPES)
DANGEROUS_STATEMENT_TYPES == {"Drop", "Delete", "Insert", "Update", "Alter", "Create"}

\* Keywords looked for in the upper-cased text, as a sequence (the code walks a set)
DANGEROUS_KEYWORDS ==
    << "DROP", "DELETE", "INSERT", "UPDATE", "ALTER", "CREATE", "TRUNCATE", "MERGE",
       "GRANT", "REVOKE", "EXECUTE", "EXEC", "ATTACH", "DETACH", "COPY", "EXPORT" >>

(***************************************************************************)
(* Bounds of the model                                                      *)
(***************************************************************************)
\* largest retry_count / max_retries handed to the nodes
MaxRetryBound == 5

\* the last instant of the clock
MaxTime == 3

\* the cache_ttl the registry is built with, in clock ticks
cache_ttl == 2

(***************************************************************************)
(* SQL strings.  The string the LLM returns is described by the statement   *)
(* it spells (what sqlglot.parse_one makes of it) and by how it is written  *)
(* (separator, letter case, a trailing second statement, a defect).         *)
(*   verb      leading keyword of the first statement                       *)
(*   cte       a WITH clause precedes the verb                              *)
(*   table     the table the statement names                                *)
(*   col       the column it projects ("*" for a star)                      *)
(*   limit     LIMIT of the outermost query, -1 when absent                 *)
(*   sub       the FROM clause is a derived table (SELECT ... ) AS d        *)
(*   sublimit  LIMIT inside the derived table, -1 when absent               *)
(*   sep       whitespace written between the words                         *)
(*   lower     keywords are written in lower case                           *)
(*   tail      a second statement follows after ';'                         *)
(*   defect    "none", "paren" (unclosed parenthesis), "quote" (unclosed    *)
(*             string literal), "empty" (the empty string)                  *)
(*   appended  " LIMIT 100" was appended to the text by hand                *)
(***************************************************************************)
NoLimit == 0 - 1

Verbs == {"SELECT", "UNION", "DROP", "DELETE", "UPDATE", "TRUNCATE", "MERGE"}

TableRefs == {"sales", "SALES", "ghost"}

ColRefs == {"*", "amount", "bogus"}

LimitChoices == {NoLimit, 50, MAX_LIMIT, MAX_LIMIT + 1}

Separators == {" ", "\n"}

Tails == {"none", "DROP"}

Defects == {"none", "paren", "quote", "empty"}

SqlStrings ==
    { s \in [verb : Verbs, cte : BOOLEAN, table : TableRefs, col : ColRefs,
             limit : LimitChoices, sub : BOOLEAN, sublimit : LimitChoices,
             sep : Separators, lower : BOOLEAN, tail : Tails, defect : Defects,
             appended : {FALSE}] :
        /\ (s.sub => s.verb = "SELECT")
        /\ (~s.sub => s.sublimit = NoLimit)
        /\ (s.col # "*" => s.verb \in {"SELECT", "UNION"})
        /\ (s.verb \notin {"SELECT", "UNION"} => s.limit = NoLimit)
        /\ (s.defect # "none" =>
                /\ s.verb = "SELECT" /\ ~s.cte /\ ~s.sub /\ s.col = "*"
                /\ s.limit = NoLimit /\ s.tail = "none" /\ ~s.lower /\ s.sep = " "
                /\ s.table = "sales")
        /\ (s.lower => s.sep = " " /\ s.col = "*" /\ ~s.sub /\ ~s.cte)
        /\ (s.tail # "none" => s.col = "*" /\ ~s.sub /\ ~s.cte)
        /\ (s.cte => s.col = "*" /\ ~s.sub /\ s.table # "SALES")
        /\ (s.sub => s.col = "*" /\ s.sep = " ")
        /\ (s.table = "SALES" => s.verb = "SELECT" /\ s.sep = " ")
        /\ (s.col # "*" => s.sep = " " /\ s.limit \in {NoLimit, 50}) }

(***************************************************************************)
(* str.upper() and str.lower() on the words of the model                   *)
(***************************************************************************)
Upper(w) ==
    CASE w = "select" -> "SELECT" [] w = "union" -> "UNION" [] w = "drop" -> "DROP"
      [] w = "delete" -> "DELETE" [] w = "update" -> "UPDATE"
      [] w = "truncate" -> "TRUNCATE" [] w = "merge" -> "MERGE" [] w = "with" -> "WITH"
      [] w = "from" -> "FROM" [] w = "limit" -> "LIMIT" [] w = "table" -> "TABLE"
      [] w = "into" -> "INTO" [] w = "set" -> "SET" [] w = "as" -> "AS"
      [] w = "using" -> "USING" [] w = "all" -> "ALL" [] w = "on" -> "ON"
      [] w = "when" -> "WHEN" [] w = "matched" -> "MATCHED" [] w = "then" -> "THEN"
      [] w = "sales" -> "SALES" [] w = "ghost" -> "GHOST" [] w = "orders" -> "ORDERS"
      [] w = "amount" -> "AMOUNT" [] w = "bogus" -> "BOGUS" [] w = "c" -> "C"
      [] w = "d" -> "D"
      [] OTHER -> w

Lower(w) ==
    CASE w = "SALES" -> "sales" [] w = "GHOST" -> "ghost" [] w = "ORDERS" -> "orders"
      [] w = "AMOUNT" -> "amount" [] w = "BOGUS" -> "bogus"
      [] w = "SELECT" -> "select" [] w = "UNION" -> "union" [] w = "DROP" -> "drop"
      [] w = "DELETE" -> "delete" [] w = "UPDATE" -> "update"
      [] w = "TRUNCATE" -> "truncate" [] w = "MERGE" -> "merge" [] w = "WITH" -> "with"
      [] w = "FROM" -> "from" [] w = "LIMIT" -> "limit" [] w = "TABLE" -> "table"
      [] w = "INTO" -> "into" [] w = "SET" -> "set" [] w = "AS" -> "as"
      [] w = "USING" -> "using" [] w = "ALL" -> "all" [] w = "ON" -> "on"
      [] w = "WHEN" -> "when" [] w = "MATCHED" -> "matched" [] w = "THEN" -> "then"
      [] OTHER -> w

(***************************************************************************)
(* The text of a SQL string: its words and the characters between them.    *)
(* Words are never adjacent, a separator or a punctuation mark is always   *)
(* between two of them.                                                     *)
(***************************************************************************)
\* a keyword in the letter case the string is written in
Kw(s, w) == IF s.lower THEN Lower(w) ELSE w

\* the words ws joined by the separator of the string
RECURSIVE Join(_, _)
Join(ws, sep) ==
    IF Len(ws) = 0 THEN <<>>
    ELSE IF Len(ws) = 1 THEN ws
    ELSE <<ws[1], sep>> \o Join(Tail(ws), sep)

\* the digits of a LIMIT value
Num(n) ==
    CASE n = 50 -> "50" [] n = DEFAULT_LIMIT -> "100" [] n = MAX_LIMIT -> "1000"
      [] n = MAX_LIMIT + 1 -> "1001" [] OTHER -> "n"

LimitWords(s, n) == IF n = NoLimit THEN <<>> ELSE <<Kw(s, "LIMIT"), Num(n)>>

SelectWords(s) ==
    IF s.sub
    THEN <<Kw(s, "SELECT"), s.col, Kw(s, "FROM"), "(">>
            \o <<Kw(s, "SELECT"), "*", Kw(s, "FROM"), s.table>>
            \o LimitWords(s, s.sublimit) \o <<")", Kw(s, "AS"), "d">>
    ELSE <<Kw(s, "SELECT"), s.col, Kw(s, "FROM"), s.table>>

CteWords(s) ==
    IF s.cte THEN <<Kw(s, "WITH"), "c", Kw(s, "AS"), "(", Kw(s, "SELECT"), "1", ")">>
    ELSE <<>>

\* a MERGE carries its CTE in the subquery it merges from
StatementWords(s) ==
    (IF s.verb = "MERGE" THEN <<>> ELSE CteWords(s)) \o
    CASE s.verb = "SELECT" -> SelectWords(s) \o LimitWords(s, s.limit)
      [] s.verb = "UNION" ->
            SelectWords(s) \o <<Kw(s, "UNION"), Kw(s, "ALL")>> \o SelectWords(s)
                \o LimitWords(s, s.limit)
      [] s.verb = "DROP" -> <<Kw(s, "DROP"), Kw(s, "TABLE"), s.table>>
      [] s.verb = "DELETE" -> <<Kw(s, "DELETE"), Kw(s, "FROM"), s.table>>
      [] s.verb = "UPDATE" -> <<Kw(s, "UPDATE"), s.table, Kw(s, "SET"), "amount", "=", "0">>
      [] s.verb = "TRUNCATE" -> <<Kw(s, "TRUNCATE"), Kw(s, "TABLE"), s.table>>
      [] s.verb = "MERGE" ->
            <<Kw(s, "MERGE"), Kw(s, "INTO"), s.table, Kw(s, "USING")>>
                \o (IF s.cte
                    THEN <<"(">> \o CteWords(s)
                            \o <<Kw(s, "SELECT"), "*", Kw(s, "FROM"), s.table, ")",
                                 Kw(s, "AS"), "d">>
                    ELSE <<s.table>>)
                \o <<Kw(s, "ON"), "1", "=", "1", Kw(s, "WHEN"), Kw(s, "MATCHED"),
                     Kw(s, "THEN"), Kw(s, "DELETE")>>

TailWords(s) ==
    IF s.tail = "none" THEN <<>>
    ELSE <<";", s.sep, Kw(s, s.tail), s.sep, Kw(s, "TABLE"), s.sep, s.table>>

DefectWords(s) ==
    CASE s.defect = "paren" -> <<" ", "(">>
      [] s.defect = "quote" -> <<" ", "'">>
      [] OTHER -> <<>>

AppendedWords(s) ==
    IF s.appended THEN <<" ", "LIMIT", " ", Num(DEFAULT_LIMIT)>> ELSE <<>>

Text(s) ==
    IF s.defect = "empty" THEN <<>>
    ELSE Join(StatementWords(s), s.sep) \o DefectWords(s) \o TailWords(s)
            \o AppendedWords(s)

(***************************************************************************)
(* sqlglot.parse_one(sql, dialect="duckdb"): the outcome for a SQL string.  *)
(* An unclosed string literal fails in the tokenizer (TokenError), an       *)
(* unclosed parenthesis or a WITH in front of a statement that takes none   *)
(* fails in the parser (ParseError).  Of several statements the first one   *)
(* is returned.                                                             *)
(***************************************************************************)
Count(text, w) == Cardinality({i \in 1..Len(text) : text[i] = w})

ParseOne(s) ==
    IF Count(Text(s), "'") % 2 = 1 THEN "TokenError"
    ELSE IF Count(Text(s), "(") # Count(Text(s), ")") THEN "ParseError"
    ELSE IF s.cte /\ s.verb \in {"DROP", "TRUNCATE"} THEN "ParseError"
    ELSE "ok"

\* class of the root node of the AST
AstRoot(s) ==
    CASE s.verb = "SELECT" -> "Select" [] s.verb = "UNION" -> "Union"
      [] s.verb = "DROP" -> "Drop" [] s.verb = "DELETE" -> "Delete"
      [] s.verb = "UPDATE" -> "Update" [] s.verb = "TRUNCATE" -> "TruncateTable"
      [] s.verb = "MERGE" -> "Merge"

\* ast.find(exp.With)
AstHasWith(s) == s.cte

\* ast.find_all(exp.Table): the table names, one per reference
AstTables(s) ==
    IF s.verb \in {"UNION", "MERGE"} THEN <<s.table, s.table>> ELSE <<s.table>>

\* ast.find_all(exp.Column): the column names, one per reference
AstColumns(s) ==
    CASE s.verb = "SELECT" -> IF s.col = "*" THEN <<>> ELSE <<s.col>>
      [] s.verb = "UNION" -> IF s.col = "*" THEN <<>> ELSE <<s.col, s.col>>
      [] s.verb = "UPDATE" -> <<"amount">>
      [] OTHER -> <<>>

\* ast.find(exp.Limit): breadth first, so the outermost LIMIT comes first
AstLimitNode(s) ==
    IF s.verb \in {"SELECT", "UNION"} /\ s.limit # NoLimit THEN "top"
    ELSE IF s.sub /\ s.sublimit # NoLimit THEN "sub"
    ELSE "none"

\* ast.sql(dialect="duckdb"): the first statement, written canonically
AstSql(s) == [s EXCEPT !.sep = " ", !.lower = FALSE, !.tail = "none"]

(***************************************************************************)
(* Schema context.  A context is a sequence of lines, a line a sequence of *)
(* pieces of text.                                                          *)
(***************************************************************************)
RegistryTables == <<"sales", "orders">>

ColumnNames(t) == IF t = "sales" THEN <<"amount">> ELSE <<"total">>

RECURSIVE Flatten(_)
Flatten(seqs) == IF seqs = <<>> THEN <<>> ELSE Head(seqs) \o Flatten(Tail(seqs))

\* the names of RegistryTables that are in the set present, in registry order
TablesIn(present) == SelectSeq(RegistryTables, LAMBDA t : t \in present)

\* SchemaRegistry.get_schema_context: the markdown handed to the run
get_schema_context(present) ==
    IF present = {} THEN << <<"No tables discovered. Please check data source configuration.">> >>
    ELSE << <<"## Available Tables">>, <<>> >> \o
         Flatten([i \in 1..Len(TablesIn(present)) |->
            LET t == TablesIn(present)[i] IN
            << <<"### ", t>>, <<"Source: ", "local">>, <<>>,
               <<"| Column | Type | Samples |">>, <<"|--------|------|---------|">> >>
            \o [j \in 1..Len(ColumnNames(t)) |->
                    <<"| ", ColumnNames(t)[j], " | ", "DOUBLE", " | ", "-", " |">>]
            \o << <<>> >>])

\* the "Table: name / Columns: a, b" form that the parser of the validator reads
TableColumnsContext(present) ==
    Flatten([i \in 1..Len(TablesIn(present)) |->
        LET t == TablesIn(present)[i] IN
        << <<"Table:", t>>, <<"Columns:">> \o ColumnNames(t) >>])

\* the "Table: name / - column: type" form
TableListContext(present) ==
    Flatten([i \in 1..Len(TablesIn(present)) |->
        LET t == TablesIn(present)[i] IN
        << <<"Table:", t>> >> \o
        [j \in 1..Len(ColumnNames(t)) |-> <<"- ", ColumnNames(t)[j], ": ", "DOUBLE">>]])

ContextFormats == {"registry", "table_columns", "table_list"}

SchemaContext(format, present) ==
    CASE format = "registry" -> get_schema_context(present)
      [] format = "table_columns" -> TableColumnsContext(present)
      [] format = "table_list" -> TableListContext(present)
      [] OTHER -> <<>>

StartsWith(line, prefix) == Len(line) > 0 /\ line[1] = prefix

HasColon(line) ==
    \E i \in 1..Len(line) : line[i] \in {"Table:", "Columns:", "Source: ", ": "}

(***************************************************************************)
(* _parse_schema_context: table name -> column names.  acc is the result   *)
(* so far, cur the current table (None before the first "Table:" line) and *)
(* cols its columns so far.                                                 *)
(***************************************************************************)
SaveTable(acc, cur, cols) ==
    IF cur # None /\ cols # <<>>
    THEN [n \in DOMAIN acc \cup {Get(cur)} |-> IF n = Get(cur) THEN cols ELSE acc[n]]
    ELSE acc

RECURSIVE ParseLines(_, _, _, _)
ParseLines(lines, acc, cur, cols) ==
    IF lines = <<>> THEN SaveTable(acc, cur, cols)
    ELSE LET line == Head(lines) IN
         IF StartsWith(line, "Table:")
         THEN ParseLines(Tail(lines), SaveTable(acc, cur, cols), Some(line[2]), <<>>)
         ELSE IF StartsWith(line, "Columns:")
         THEN ParseLines(Tail(lines), acc, cur, cols \o Tail(line))
         ELSE IF HasColon(line) /\ cur # None
         THEN ParseLines(Tail(lines), acc, cur,
                         cols \o <<IF line[1] = "- " THEN line[2] ELSE line[1]>>)
         ELSE ParseLines(Tail(lines), acc, cur, cols)

_parse_schema_context(schema_context) == ParseLines(schema_context, <<>>, None, <<>>)

(***************************************************************************)
(* The checks of the validator                                              *)
(***************************************************************************)
\* f" {keyword} " in f" {sql_upper} ": the keyword with a blank on either side
KeywordHit(text, keyword) ==
    \E i \in 1..Len(text) :
        /\ Upper(text[i]) = keyword
        /\ (i = 1 \/ text[i - 1] = " ")
        /\ (i = Len(text) \/ text[i + 1] = " ")

_check_security(s) ==
    (IF AstRoot(s) \in DANGEROUS_STATEMENT_TYPES
     THEN << <<"Blocked operation", AstRoot(s)>> >> ELSE <<>>)
    \o [i \in 1..Len(SelectSeq(DANGEROUS_KEYWORDS, LAMBDA k : KeywordHit(Text(s), k))) |->
            <<"Blocked operation",
              SelectSeq(DANGEROUS_KEYWORDS, LAMBDA k : KeywordHit(Text(s), k))[i]>>]

_check_select_only(s) ==
    IF AstRoot(s) \in {"Select", "Union", "Intersect", "Except"} THEN <<>>
    ELSE IF AstHasWith(s) THEN <<>>
    ELSE << <<"Only SELECT statements are allowed", AstRoot(s)>> >>

\* schema: table name -> column names
KnownTable(schema, name) == \E k \in DOMAIN schema : Lower(k) = Lower(name)

_validate_tables(s, schema) ==
    [i \in 1..Len(SelectSeq(AstTables(s), LAMBDA n : ~KnownTable(schema, n))) |->
        <<"Unknown table", SelectSeq(AstTables(s), LAMBDA n : ~KnownTable(schema, n))[i]>>]

ReferencedTables(s, schema) ==
    {k \in DOMAIN schema : \E i \in 1..Len(AstTables(s)) : Lower(k) = Lower(AstTables(s)[i])}

ValidColumnsLower(s, schema) ==
    UNION {{Lower(schema[k][j]) : j \in DOMAIN schema[k]} : k \in ReferencedTables(s, schema)}

_validate_columns(s, schema) ==
    IF ReferencedTables(s, schema) = {} THEN <<>>
    ELSE [i \in 1..Len(SelectSeq(AstColumns(s),
                        LAMBDA c : Lower(c) \notin ValidColumnsLower(s, schema))) |->
            <<"Unknown column",
              SelectSeq(AstColumns(s),
                        LAMBDA c : Lower(c) \notin ValidColumnsLower(s, schema))[i]>>]

\* _enforce_limit: the SQL string it returns
_enforce_limit(s) ==
    IF AstLimitNode(s) = "top"
    THEN IF s.limit > MAX_LIMIT THEN AstSql([s EXCEPT !.limit = MAX_LIMIT]) ELSE s
    ELSE IF AstLimitNode(s) = "sub"
    THEN IF s.sublimit > MAX_LIMIT THEN AstSql([s EXCEPT !.sublimit = MAX_LIMIT]) ELSE s
    ELSE IF AstRoot(s) \in {"Select", "Union"}
    THEN AstSql([s EXCEPT !.limit = DEFAULT_LIMIT])
    ELSE [s EXCEPT !.appended = TRUE]

(***************************************************************************)
(* validate_sql: the update it returns for a state.  raised is the         *)
(* exception that leaves the node ("" when it returns); generated_sql is   *)
(* None when the update has no such key.                                    *)
(***************************************************************************)
ValidatorUpdate(valid, errors, status, sql) ==
    [raised |-> "", sql_is_valid |-> valid, validation_errors |-> errors,
     validation_status |-> status, generated_sql |-> sql]

ValidatorRaise(exc) ==
    [raised |-> exc, sql_is_valid |-> FALSE, validation_errors |-> None,
     validation_status |-> "", generated_sql |-> None]

ValidationErrors(s, schema) ==
    _check_security(s) \o _check_select_only(s) \o
    (IF DOMAIN schema # {}
     THEN _validate_tables(s, schema) \o _validate_columns(s, schema) ELSE <<>>)

validate_sql(state) ==
    IF state.retry_count > MAX_RETRY_COUNT
    THEN ValidatorUpdate(FALSE, Some(<< <<"Maximum retry count exceeded", "">> >>),
                         "failed", None)
    ELSE IF state.generated_sql = None \/ Text(Get(state.generated_sql)) = <<>>
    THEN ValidatorUpdate(FALSE, Some(<< <<"No SQL query was generated", "">> >>),
                         "invalid", None)
    ELSE LET s == Get(state.generated_sql)
             errors == ValidationErrors(s, _parse_schema_context(state.schema_context))
             corrected_sql == _enforce_limit(s)
         IN  IF ParseOne(s) = "TokenError" THEN ValidatorRaise("TokenError")
             ELSE IF ParseOne(s) = "ParseError"
             THEN ValidatorUpdate(FALSE, Some(<< <<"SQL syntax error", "">> >>),
                                  "invalid", None)
             ELSE ValidatorUpdate(
                    errors = <<>>,
                    IF errors # <<>> THEN Some(errors) ELSE None,
                    IF errors # <<>> THEN "invalid"
                    ELSE IF corrected_sql # s THEN "corrected" ELSE "valid",
                    IF corrected_sql # s THEN Some(corrected_sql) ELSE None)

\* the state after the runtime merged an update of the validator into it
MergeValidator(state, update) ==
    [state EXCEPT !.sql_is_valid = update.sql_is_valid,
                  !.validation_errors = update.validation_errors,
                  !.validation_status = update.validation_status,
                  !.generated_sql = IF update.generated_sql # None
                                    THEN update.generated_sql ELSE @]

(***************************************************************************)
(* The workflow graph (agents/graph.py) and its nodes (agents/nodes).      *)
(* A message (an error, an answer) is a sequence of string pieces.         *)
(***************************************************************************)
\* state.get(key, default)
StateGet(state, key, default) == IF key \in DOMAIN state THEN state[key] ELSE default

END == "__end__"

Intents == {"query", "summarize", "chat", "clarify"}

\* route_by_intent as its docstring has it: a query goes straight to sql_generator
route_by_intent_as_documented(state) ==
    LET intent == IF StateGet(state, "intent", None) = None THEN "query"
                  ELSE Get(state["intent"])
    IN  CASE intent = "query" -> "sql_generator"
          [] intent = "summarize" -> "executor"
          [] intent = "chat" -> "summarizer"
          [] intent = "clarify" -> END
          [] OTHER -> "sql_generator"

\* route_by_intent without the "or 'query'" and with END as the default of the lookup
route_by_intent_no_default(state) ==
    LET intent == IF StateGet(state, "intent", None) = None THEN "none"
                  ELSE Get(state["intent"])
    IN  CASE intent = "query" -> "schema_discovery"
          [] intent = "summarize" -> "executor"
          [] intent = "chat" -> "summarizer"
          [] intent = "clarify" -> END
          [] OTHER -> END

\* intent = state.get("intent") or "query", then routing_map.get(intent, "schema_discovery")
route_by_intent(state) ==
    LET intent == IF StateGet(state, "intent", None) = None THEN "query"
                  ELSE Get(state["intent"])
    IN  CASE intent = "query" -> "schema_discovery"
          [] intent = "summarize" -> "executor"
          [] intent = "chat" -> "summarizer"
          [] intent = "clarify" -> END
          [] OTHER -> "schema_discovery"

\* check_validation with the budget test written as retry_count > max_retries
check_validation_one_more(state) ==
    IF StateGet(state, "sql_is_valid", FALSE) THEN "executor"
    ELSE IF StateGet(state, "retry_count", 0) > StateGet(state, "max_retries", MAX_RETRIES)
    THEN "summarizer"
    ELSE "sql_generator"

\* check_validation without the budget test
check_validation_no_budget(state) ==
    IF StateGet(state, "sql_is_valid", FALSE) THEN "executor" ELSE "sql_generator"

check_validation(state) ==
    IF StateGet(state, "sql_is_valid", FALSE) THEN "executor"
    ELSE IF StateGet(state, "retry_count", 0) >= StateGet(state, "max_retries", MAX_RETRIES)
    THEN "summarizer"
    ELSE "sql_generator"

\* the executor's outgoing edge, had it been made the conditional edge of the validator
executor_edge_with_retry(state) == check_validation(state)

\* workflow.add_edge("executor", "summarizer")
executor_edge(state) == "summarizer"

\* workflow.add_edge("summarizer", END)
summarizer_edge(state) == END

\* create_initial_state(...) as POST /query calls it
create_initial_state(max_retries, schema_context, available_tables) ==
    [intent |-> None, clarification_question |-> None,
     schema_context |-> schema_context, available_tables |-> available_tables,
     refined_schema_context |-> None,
     generated_sql |-> None, sql_is_valid |-> FALSE, validation_status |-> "pending",
     validation_errors |-> Some(<<>>), retry_count |-> 0, max_retries |-> max_retries,
     query_results |-> None, row_count |-> 0, execution_error |-> None,
     final_answer |-> None]

\* route_query: llm is what the structured LLM call gave (ok = FALSE: it raised)
route_query(state, llm) ==
    IF llm.ok
    THEN [state EXCEPT !.intent = Some(llm.intent),
                       !.clarification_question = llm.clarification_question]
    ELSE [state EXCEPT !.intent = Some("query"), !.clarification_question = None]

RouterOutcomes ==
    {[ok |-> TRUE, intent |-> i, clarification_question |-> q] :
        i \in Intents, q \in {None, Some(<<"Which period do you mean?">>)}}
    \cup {[ok |-> FALSE, intent |-> "query", clarification_question |-> None]}

\* discover_schema: tools = TRUE iff the tool calls of the loop produced schema parts
discover_schema(state, tools) ==
    [state EXCEPT !.refined_schema_context =
        IF tools THEN Some(<< <<"## Discovered Schema">> >>)
        ELSE Some(state.schema_context)]

\* generate_sql: the schema_context argument it hands to format_sql_generator_prompt
prompt_schema_context(state) == StateGet(state, "schema_context", <<>>)

\* generate_sql: llm is what the structured LLM call gave (ok = FALSE: it raised)
\* generate_sql whose except branch leaves retry_count as it was
generate_sql_failure_uncounted(state, llm) ==
    IF llm.ok
    THEN [state EXCEPT !.generated_sql = Some(llm.sql),
                       !.retry_count = StateGet(state, "retry_count", 0) + 1]
    ELSE [state EXCEPT !.generated_sql = None,
                       !.validation_errors = Some(<< <<"SQL Generation failed: ", "LLM error">> >>),
                       !.sql_is_valid = FALSE,
                       !.validation_status = "failed"]

\* generate_sql whose except branch does not mark the validation as failed
generate_sql_failure_unmarked(state, llm) ==
    IF llm.ok
    THEN [state EXCEPT !.generated_sql = Some(llm.sql),
                       !.retry_count = StateGet(state, "retry_count", 0) + 1]
    ELSE [state EXCEPT !.generated_sql = None,
                       !.retry_count = StateGet(state, "retry_count", 0) + 1]

\* generate_sql: llm is what the structured LLM call gave (SQL or an exception)
generate_sql(state, llm) ==
    IF llm.ok
    THEN [state EXCEPT !.generated_sql = Some(llm.sql),
                       !.retry_count = StateGet(state, "retry_count", 0) + 1]
    ELSE [state EXCEPT !.generated_sql = None,
                       !.retry_count = StateGet(state, "retry_count", 0) + 1,
                       !.validation_errors = Some(<< <<"SQL Generation failed: ", "LLM error">> >>),
                       !.sql_is_valid = FALSE,
                       !.validation_status = "failed"]

\* "; ".join(errors)
RECURSIVE JoinMessages(_)
JoinMessages(errors) ==
    IF errors = <<>> THEN <<>>
    ELSE IF Len(errors) = 1 THEN Head(errors)
    ELSE Head(errors) \o <<"; ">> \o JoinMessages(Tail(errors))

\* _format_error_for_llm(error_type, original_error)
_format_error_for_llm(error_type, original_error) ==
    CASE error_type = "timeout" ->
            <<"Query timed out: ", original_error,
              ". Simplify the query or add more filters to reduce execution time.">>
      [] error_type = "table_not_found" ->
            <<"Table not found: ", original_error,
              ". Verify the table name matches one from the available tables.">>
      [] OTHER -> <<"Query execution failed: ", original_error>>

\* Python truthiness of an optional SQL string
SqlTruthy(g) == g # None /\ Text(Get(g)) # <<>>

ExecutorUpdate(state, results, rows, error) ==
    [state EXCEPT !.query_results = results, !.row_count = rows, !.execution_error = error]

\* execute_query without its two guards: the engine is asked whatever the state holds
execute_query_unguarded(state, engine) ==
    CASE engine.kind = "rows" ->
            ExecutorUpdate(state, Some(engine.data), Len(engine.data), None)
      [] engine.kind = "TimeoutError" ->
            [ExecutorUpdate(state, None, 0,
                Some(_format_error_for_llm("timeout", "Query exceeded 30.0s timeout")))
             EXCEPT !.sql_is_valid = FALSE,
                    !.validation_errors = Some(<<
                        _format_error_for_llm("timeout", "Query exceeded 30.0s timeout")>>)]
      [] engine.kind = "ExecutionError" ->
            [ExecutorUpdate(state, None, 0,
                Some(_format_error_for_llm("unknown", "Query execution failed")))
             EXCEPT !.sql_is_valid = FALSE,
                    !.validation_errors = Some(<<
                        _format_error_for_llm("unknown", "Query execution failed")>>)]
      [] OTHER ->
            ExecutorUpdate(state, None, 0,
                Some(_format_error_for_llm("unknown", "unexpected error")))

\* execute_query whose last handler (except Exception) records no execution_error
execute_query_silent(state, engine) ==
    IF ~SqlTruthy(state.generated_sql)
    THEN ExecutorUpdate(state, None, 0, Some(<<"No SQL query to execute">>))
    ELSE IF ~state.sql_is_valid
    THEN ExecutorUpdate(state, None, 0,
            Some(IF Truthy(state.validation_errors)
                 THEN JoinMessages(Get(state.validation_errors))
                 ELSE <<"SQL validation failed">>))
    ELSE CASE engine.kind = "rows" ->
                ExecutorUpdate(state, Some(engine.data), Len(engine.data), None)
           [] engine.kind = "TimeoutError" ->
                [ExecutorUpdate(state, None, 0,
                    Some(_format_error_for_llm("timeout", "Query exceeded 30.0s timeout")))
                 EXCEPT !.sql_is_valid = FALSE,
                        !.validation_errors = Some(<<
                            _format_error_for_llm("timeout", "Query exceeded 30.0s timeout")>>)]
           [] engine.kind = "ExecutionError" ->
                [ExecutorUpdate(state, None, 0,
                    Some(_format_error_for_llm("unknown", "Query execution failed")))
                 EXCEPT !.sql_is_valid = FALSE,
                        !.validation_errors = Some(<<
                            _format_error_for_llm("unknown", "Query execution failed")>>)]
           [] OTHER -> ExecutorUpdate(state, None, 0, None)

\* execute_query whose timeout handler answers an empty row list instead of None
execute_query_empty_rows_on_timeout(state, engine) ==
    IF ~SqlTruthy(state.generated_sql)
    THEN ExecutorUpdate(state, None, 0, Some(<<"No SQL query to execute">>))
    ELSE IF ~state.sql_is_valid
    THEN ExecutorUpdate(state, None, 0,
            Some(IF Truthy(state.validation_errors)
                 THEN JoinMessages(Get(state.validation_errors))
                 ELSE <<"SQL validation failed">>))
    ELSE CASE engine.kind = "rows" ->
                ExecutorUpdate(state, Some(engine.data), Len(engine.data), None)
           [] engine.kind = "TimeoutError" ->
                [ExecutorUpdate(state, Some(<<>>), 0,
                    Some(_format_error_for_llm("timeout", "Query exceeded 30.0s timeout")))
                 EXCEPT !.sql_is_valid = FALSE,
                        !.validation_errors = Some(<<
                            _format_error_for_llm("timeout", "Query exceeded 30.0s timeout")>>)]
           [] engine.kind = "ExecutionError" ->
                [ExecutorUpdate(state, None, 0,
                    Some(_format_error_for_llm("unknown", "Query execution failed")))
                 EXCEPT !.sql_is_valid = FALSE,
                        !.validation_errors = Some(<<
                            _format_error_for_llm("unknown", "Query execution failed")>>)]
           [] OTHER ->
                ExecutorUpdate(state, None, 0,
                    Some(_format_error_for_llm("unknown", "unexpected error")))

\* execute_query: engine is what running the SQL gave (rows or an exception)
execute_query(state, engine) ==
    IF ~SqlTruthy(state.generated_sql)
    THEN ExecutorUpdate(state, None, 0, Some(<<"No SQL query to execute">>))
    ELSE IF ~state.sql_is_valid
    THEN ExecutorUpdate(state, None, 0,
            Some(IF Truthy(state.validation_errors)
                 THEN JoinMessages(Get(state.validation_errors))
                 ELSE <<"SQL validation failed">>))
    ELSE CASE engine.kind = "rows" ->
                ExecutorUpdate(state, Some(engine.data), Len(engine.data), None)
           [] engine.kind = "TimeoutError" ->
                [ExecutorUpdate(state, None, 0,
                    Some(_format_error_for_llm("timeout", "Query exceeded 30.0s timeout")))
                 EXCEPT !.sql_is_valid = FALSE,
                        !.validation_errors = Some(<<
                            _format_error_for_llm("timeout", "Query exceeded 30.0s timeout")>>)]
           [] engine.kind = "ExecutionError" ->
                [ExecutorUpdate(state, None, 0,
                    Some(_format_error_for_llm("unknown", "Query execution failed")))
                 EXCEPT !.sql_is_valid = FALSE,
                        !.validation_errors = Some(<<
                            _format_error_for_llm("unknown", "Query execution failed")>>)]
           [] OTHER ->
                ExecutorUpdate(state, None, 0,
                    Some(_format_error_for_llm("unknown", "unexpected error")))

EngineOutcomes ==
    {[kind |-> "rows", data |-> d] : d \in {<<>>, <<"row">>}}
    \cup {[kind |-> k, data |-> <<>>] : k \in {"TimeoutError", "ExecutionError", "Exception"}}

\* _generate_fallback_response(state)
_generate_fallback_response(state) ==
    IF Truthy(state.execution_error)
    THEN <<"I encountered an issue processing your request. ",
           "Could you try rephrasing your question?">>
    ELSE IF Truthy(state.query_results) /\ state.row_count > 0
    THEN <<"I found ", "row_count", " result", " for your query. Please review the data below.">>
    ELSE IF state.intent = Some("chat")
    THEN <<"Hello! I'm your retail insights assistant. ">>
    ELSE <<"I wasn't able to find any matching data for your query. ">>

\* format_summarizer_prompt: the result type that selects the prompt
format_summarizer_prompt(state) ==
    IF Truthy(state.execution_error) THEN "error"
    ELSE IF state.intent = Some("chat") THEN "chat"
    ELSE IF ~Truthy(state.query_results) \/ state.row_count = 0 THEN "empty"
    ELSE "data"

\* format_summarizer_prompt: what the user prompt of the result type carries besides
\* the user's question: the error details, or the result rows
prompt_details(state) ==
    CASE format_summarizer_prompt(state) = "error" -> Get(state.execution_error)
      [] format_summarizer_prompt(state) = "data" -> Get(state.query_results)
      [] OTHER -> <<>>

\* what the summarizer's LLM call gives: it raised (ok = FALSE), or it answered, and the
\* answer may repeat the details that the prompt carried
SummarizerOutcomes ==
    {[ok |-> FALSE, quotes |-> FALSE]} \cup {[ok |-> TRUE, quotes |-> q] : q \in BOOLEAN}

\* summarize_results: final_answer is response.content as it came, or the fallback
summarize_results(state, llm) ==
    [state EXCEPT !.final_answer =
        IF llm.ok
        THEN Some(<<"response.content to the prompt: ", format_summarizer_prompt(state)>>
                  \o (IF llm.quotes THEN prompt_details(state) ELSE <<>>))
        ELSE Some(_generate_fallback_response(state))]

\* what POST /query sends: an error answer, or QueryResult(success = True, ...)
HttpAnswer(status_code, error, answer) ==
    [status_code |-> status_code, success |-> error = "", error |-> error,
     answer |-> answer]

\* process_query, from the return of graph.ainvoke on: result is the terminal
\* state, raised = TRUE iff ainvoke raised
process_query(result, raised) ==
    IF raised THEN HttpAnswer(500, "HTTPException", None)
    ELSE IF Truthy(result.execution_error) /\ ~Truthy(result.final_answer)
    THEN HttpAnswer(500, "ExecutionError", None)
    ELSE IF result.validation_status = "failed" /\ ~result.sql_is_valid
    THEN HttpAnswer(422, "SQLGenerationError", None)
    ELSE HttpAnswer(200, "", result.final_answer)

(***************************************************************************)
(* The schema registry (engine/schema_registry.py).  The cache is a        *)
(* TTLCache: table name -> [rows, born]; an entry is visible while         *)
(* now < born + cache_ttl.  A lock is "free" or holds the owning thread.   *)
(***************************************************************************)
Threads == {"t1", "t2"}

\* the data sources, by type: the first is configured at construction, the second
\* is the one add_source appends
Sources == <<"local", "s3">>

\* what discovery of a source can give: an exception, or its tables (name, row count)
Discoveries(source) ==
    IF source = "local"
    THEN {[ok |-> FALSE, tables |-> <<>>],
          [ok |-> TRUE, tables |-> << <<"sales", 1>> >>],
          [ok |-> TRUE, tables |-> << <<"sales", 2>>, <<"orders", 2>> >>]}
    ELSE {[ok |-> FALSE, tables |-> <<>>],
          [ok |-> TRUE, tables |-> << <<"events", 1>> >>]}

\* new_schemas.update(tables) on an insertion-ordered dict kept as a sequence of pairs
RECURSIVE DictUpdate(_, _)
DictUpdate(d, tables) ==
    IF tables = <<>> THEN d
    ELSE LET kv == Head(tables)
             at == {i \in DOMAIN d : d[i][1] = kv[1]}
         IN  DictUpdate(IF at = {} THEN Append(d, kv)
                        ELSE [i \in DOMAIN d |-> IF i \in at THEN kv ELSE d[i]],
                        Tail(tables))

\* a failed source throws away what the sources before it gave
DiscoverDropsOnFailure(new_schemas, d) ==
    IF d.ok THEN DictUpdate(new_schemas, d.tables) ELSE <<>>

\* the body of "for source in self._sources": new_schemas.update(tables), or the
\* exception of the discovery logged and the source skipped
DiscoverInto(new_schemas, d) ==
    IF d.ok THEN DictUpdate(new_schemas, d.tables) ELSE new_schemas

\* dict(self._cache): the entries that have not expired, name -> rows
Visible(cache, now) ==
    [n \in {m \in DOMAIN cache : now < cache[m].born + cache_ttl} |-> cache[n].rows]

\* self._cache[name] = schema
CachePut(cache, name, rows, now) ==
    [n \in DOMAIN cache \cup {name} |->
        IF n = name THEN [rows |-> rows, born |-> now] ELSE cache[n]]

EmptyCache == [n \in {} |-> [rows |-> 0, born |-> 0]]

\* is_stale
is_stale(reg, now) ==
    reg.last_refresh = None \/ now - Get(reg.last_refresh) > cache_ttl

\* taking the cache lock without looking at its owner
CacheLockNotHeeded(reg, t) == TRUE

\* "with self._cache_lock" can be entered by t (no path enters it twice)
CacheLockFree(reg, t) == reg.cache_lock = "free"

\* taking the refresh lock without looking at its owner
RefreshLockNotHeeded(reg, t) == TRUE

\* "with self._refresh_lock" can be entered by t
RefreshLockFree(reg, t) == reg.refresh_lock = "free"

\* SchemaRegistry.__init__
NewRegistry ==
    [cache |-> EmptyCache, cache_lock |-> "free", refresh_lock |-> "free",
     last_refresh |-> None, initialized |-> FALSE, views |-> {},
     sources |-> <<Sources[1]>>]

EmptyVisible == Visible(EmptyCache, 0)

\* a thread outside any registry call
IdleThread ==
    [pc |-> "idle", ret |-> "caller", new_schemas |-> <<>>, outcomes |-> <<>>,
     src |-> 1, first |-> 0, ins |-> 1, snap |-> None, base |-> EmptyVisible]

(***************************************************************************)
(* The parts of the state a specification does not use stay idle.          *)
(***************************************************************************)
NoUpdate == ValidatorUpdate(FALSE, None, "", None)

IdleValidator ==
    /\ v_pc = "idle"
    /\ v_in = [generated_sql |-> None, retry_count |-> 0, max_retries |-> MAX_RETRIES,
               sql_is_valid |-> FALSE, validation_status |-> "pending",
               validation_errors |-> Some(<<>>),
               schema_context |-> <<>>, available_tables |-> <<>>]
    /\ v_out = NoUpdate

IdleRouting ==
    /\ r_pc = "idle"
    /\ r_state = [sql_is_valid |-> FALSE]
    /\ r_result = ""

IdleGraph ==
    /\ g_node = "idle"
    /\ g_state = create_initial_state(MAX_RETRIES, <<>>, <<>>)
    /\ g_settings = TRUE
    /\ g_path = <<>>
    /\ g_resp = None

IdleRegistry ==
    /\ reg_obj = NewRegistry
    /\ reg_th = [t \in Threads |-> IdleThread]
    /\ reg_now = 0
    /\ reg_committed = EmptyCache

IdleExecutor ==
    /\ x_req = <<>>
    /\ x_conn = <<>>

IdleRequests ==
    /\ q_req = <<>>
    /\ q_store = <<>>

(***************************************************************************)
(* SpecValidator: validate_sql is called once on a state whose             *)
(* generated_sql, retry_count and schema are drawn from the bounded sets.  *)
(***************************************************************************)
\* the budgets a run is created with: create_initial_state(max_retries = ...)
BudgetChoices == {1, MAX_RETRIES, MaxRetryBound}

ValidatorInputs ==
    {[generated_sql |-> g, retry_count |-> r, max_retries |-> m,
      sql_is_valid |-> FALSE, validation_status |-> "pending",
      validation_errors |-> Some(<<>>),
      schema_context |-> SchemaContext(c[1], c[2]), available_tables |-> TablesIn(c[2])] :
        g \in {None} \cup {Some(s) : s \in SqlStrings},
        r \in 0..MaxRetryBound,
        m \in BudgetChoices,
        c \in ContextFormats \X SUBSET {RegistryTables[i] : i \in DOMAIN RegistryTables}}

InitValidator ==
    /\ v_pc = "call"
    /\ v_in \in ValidatorInputs
    /\ v_out = NoUpdate
    /\ IdleRouting /\ IdleGraph /\ IdleRegistry /\ IdleExecutor /\ IdleRequests

ValidateCall ==
    /\ v_pc = "call"
    /\ v_out' = validate_sql(v_in)
    /\ v_pc' = "done"
    /\ UNCHANGED <<v_in, routingVars, graphVars, registryVars, executorVars,
                   requestVars>>

NextValidator == ValidateCall

SpecValidator == InitValidator /\ [][NextValidator]_vars

\* the validator returned (it did not raise) and accepted the SQL
ValidatorAccepted == v_pc = "done" /\ v_out.raised = "" /\ v_out.sql_is_valid

\* the SQL string the validator was given
GivenSql == Get(v_in.generated_sql)

\* the SQL string in the state once the update is merged
LeftSql == Get(MergeValidator(v_in, v_out).generated_sql)

\* the word w stands in the text as a whole word, in any letter case
ContainsWord(text, w) == \E i \in 1..Len(text) : Upper(text[i]) = w

ForbiddenRoots ==
    {"Drop", "Delete", "Insert", "Update", "Alter", "Create", "TruncateTable", "Merge",
     "Grant", "Revoke", "Execute", "Attach", "Detach", "Copy", "Export"}

ForbiddenWords ==
    {"DROP", "DELETE", "INSERT", "UPDATE", "ALTER", "CREATE", "TRUNCATE", "MERGE",
     "GRANT", "REVOKE", "EXECUTE", "ATTACH", "DETACH", "COPY", "EXPORT"}

\* C6: SQL that the validator accepts is no DROP, DELETE, ..., EXPORT statement
\* and has none of these words as a whole word in its text.
C6_NoDangerousSqlAccepted ==
    ValidatorAccepted =>
        /\ AstRoot(GivenSql) \notin ForbiddenRoots
        /\ \A w \in ForbiddenWords : ~ContainsWord(Text(GivenSql), w)

\* C7: SQL that the validator accepts is left in the state with a LIMIT on its
\* outermost query whose value is a literal of at most MAX_LIMIT.
C7_TopLevelLimitEnforced ==
    ValidatorAccepted =>
        /\ AstRoot(LeftSql) \in {"Select", "Union"}
        /\ LeftSql.limit # NoLimit
        /\ LeftSql.limit <= MAX_LIMIT

\* C8: SQL that the validator accepts has a SELECT, UNION, INTERSECT or EXCEPT
\* at its root (a WITH in front of a SELECT parses to a Select root).
C8_SelectFamilyRootOnly ==
    ValidatorAccepted => AstRoot(GivenSql) \in {"Select", "Union", "Intersect", "Except"}

\* C9: when the schema context is the one the registry formats, every table of
\* SQL that the validator accepts is, up to letter case, a table of the registry.
C9_TablesExistInRegistry ==
    (ValidatorAccepted /\ v_in.schema_context =
            get_schema_context({v_in.available_tables[j] : j \in DOMAIN v_in.available_tables}))
    => \A i \in DOMAIN AstTables(GivenSql) :
          \E j \in DOMAIN v_in.available_tables :
              Lower(v_in.available_tables[j]) = Lower(AstTables(GivenSql)[i])

\* C15: validate_sql answers validation_status = "failed" exactly when retry_count
\* is greater than the max_retries of the state it is given; with retry_count equal
\* to max_retries the SQL is validated as usual.
C15_BudgetCheckUsesRunBudget ==
    v_pc = "done" =>
        (v_out.validation_status = "failed" <=> v_in.retry_count > v_in.max_retries)

\* C20: after validate_sql returned, validation_status is "corrected" exactly when
\* the generated_sql of the state differs from the one the validator was given.
C20_CorrectedIffSqlChanged ==
    (v_pc = "done" /\ v_out.raised = "") =>
        (v_out.validation_status = "corrected"
            <=> MergeValidator(v_in, v_out).generated_sql # v_in.generated_sql)

(***************************************************************************)
(* SpecRouting: check_validation is called once on a state whose keys      *)
(* sql_is_valid, retry_count and max_retries are set or missing.           *)
(***************************************************************************)
RoutingKeys == {"sql_is_valid", "retry_count", "max_retries"}

RoutingInputs ==
    {[k \in K |-> full[k]] :
        full \in [sql_is_valid : BOOLEAN, retry_count : 0..MaxRetryBound,
                  max_retries : 0..MaxRetryBound],
        K \in SUBSET RoutingKeys}

\* the states route_by_intent is called on: intent missing, None or set
IntentInputs ==
    {[k \in {} |-> None], [intent |-> None]}
        \cup {[intent |-> Some(i)] : i \in Intents}

InitRouting ==
    /\ \/ r_pc = "call" /\ r_state \in RoutingInputs
       \/ r_pc = "call_intent" /\ r_state \in IntentInputs
    /\ r_result = ""
    /\ IdleValidator /\ IdleGraph /\ IdleRegistry /\ IdleExecutor /\ IdleRequests

CheckValidationCall ==
    /\ r_pc = "call"
    /\ r_result' = check_validation(r_state)
    /\ r_pc' = "done"
    /\ UNCHANGED <<r_state, validatorVars, graphVars, registryVars, executorVars,
                   requestVars>>

RouteByIntentCall ==
    /\ r_pc = "call_intent"
    /\ r_result' = route_by_intent(r_state)
    /\ r_pc' = "done_intent"
    /\ UNCHANGED <<r_state, validatorVars, graphVars, registryVars, executorVars,
                   requestVars>>

NextRouting == CheckValidationCall \/ RouteByIntentCall

SpecRouting == InitRouting /\ [][NextRouting]_vars

\* C3: check_validation returns "executor" whenever sql_is_valid is true, whatever
\* retry_count is; otherwise "summarizer" when retry_count >= max_retries; otherwise
\* "sql_generator" (a missing key counts as its default).
C3_CheckValidationRouting ==
    r_pc = "done" =>
        LET valid == StateGet(r_state, "sql_is_valid", FALSE)
            used == StateGet(r_state, "retry_count", 0)
            budget == StateGet(r_state, "max_retries", MAX_RETRIES)
        IN  /\ valid => r_result = "executor"
            /\ (~valid /\ used >= budget) => r_result = "summarizer"
            /\ (~valid /\ used < budget) => r_result = "sql_generator"

\* the budget is just used up and the SQL is invalid: the summarizer is next
C3_Witness ==
    /\ r_pc = "done"
    /\ DOMAIN r_state = RoutingKeys
    /\ ~r_state["sql_is_valid"]
    /\ r_state["retry_count"] = r_state["max_retries"]
    /\ r_state["retry_count"] > 0
    /\ r_result = "summarizer"

\* the intent route_by_intent was called with, "" when it is missing or None
GivenIntent ==
    IF StateGet(r_state, "intent", None) = None THEN "" ELSE Get(r_state["intent"])

BaseSql ==
    [verb |-> "SELECT", cte |-> FALSE, table |-> "sales", col |-> "*", limit |-> 50,
     sub |-> FALSE, sublimit |-> NoLimit, sep |-> " ", lower |-> FALSE, tail |-> "none",
     defect |-> "none", appended |-> FALSE]

\* the SQL strings the LLM proposes
GeneratedSqls ==
    {BaseSql,
     [BaseSql EXCEPT !.limit = NoLimit],
     [BaseSql EXCEPT !.table = "ghost"],
     [BaseSql EXCEPT !.verb = "DROP", !.limit = NoLimit],
     [BaseSql EXCEPT !.defect = "paren", !.limit = NoLimit],
     [BaseSql EXCEPT !.defect = "quote", !.limit = NoLimit]}

GeneratorOutcomes ==
    {[ok |-> TRUE, sql |-> s] : s \in GeneratedSqls} \cup {[ok |-> FALSE, sql |-> BaseSql]}

GraphContextFormats == {"registry", "table_columns"}

InitGraph ==
    /\ g_node = "router"
    /\ \E m \in 1..MaxRetryBound, f \in GraphContextFormats :
            g_state = create_initial_state(
                        m,
                        SchemaContext(f, {RegistryTables[i] : i \in DOMAIN RegistryTables}),
                        RegistryTables)
    /\ g_settings \in BOOLEAN
    /\ g_path = <<>>
    /\ g_resp = None
    /\ IdleValidator /\ IdleRouting /\ IdleRegistry /\ IdleExecutor /\ IdleRequests

\* the node raised: the run is over without reaching END
Raise(node) ==
    /\ g_node' = "raised"
    /\ g_path' = Append(g_path, node)
    /\ UNCHANGED <<g_state, g_settings, g_resp, validatorVars, routingVars, registryVars, executorVars,
                   requestVars>>

\* the node returned an update; state is the workflow state with the update merged
Return(node, state, next) ==
    /\ g_state' = state
    /\ g_node' = next
    /\ g_path' = Append(g_path, node)
    /\ UNCHANGED <<g_settings, g_resp, validatorVars, routingVars, registryVars, executorVars,
                   requestVars>>

RouterNode ==
    /\ g_node = "router"
    /\ \E llm \in RouterOutcomes :
          Return("router", route_query(g_state, llm),
                 route_by_intent(route_query(g_state, llm)))

SchemaDiscoveryNode ==
    /\ g_node = "schema_discovery"
    /\ \/ Raise("schema_discovery")
       \/ \E tools \in BOOLEAN :
             Return("schema_discovery", discover_schema(g_state, tools), "sql_generator")

SqlGeneratorNode ==
    /\ g_node = "sql_generator"
    /\ IF ~g_settings THEN Raise("sql_generator")
       ELSE \E llm \in GeneratorOutcomes :
               Return("sql_generator", generate_sql(g_state, llm), "validator")

ValidatorNode ==
    /\ g_node = "validator"
    /\ IF validate_sql(g_state).raised # "" THEN Raise("validator")
       ELSE Return("validator", MergeValidator(g_state, validate_sql(g_state)),
                   check_validation(MergeValidator(g_state, validate_sql(g_state))))

ExecutorNode ==
    /\ g_node = "executor"
    /\ \E engine \in EngineOutcomes :
          Return("executor", execute_query(g_state, engine),
                 executor_edge(execute_query(g_state, engine)))

SummarizerNode ==
    /\ g_node = "summarizer"
    /\ IF ~g_settings THEN Raise("summarizer")
       ELSE \E llm \in SummarizerOutcomes :
               Return("summarizer", summarize_results(g_state, llm),
                      summarizer_edge(summarize_results(g_state, llm)))

\* process_query after graph.ainvoke: the HTTP answer for the run
ProcessQueryResponse ==
    /\ g_node \in {END, "raised"}
    /\ g_resp = None
    /\ g_resp' = Some(process_query(g_state, g_node = "raised"))
    /\ UNCHANGED <<g_node, g_state, g_settings, g_path, validatorVars, routingVars,
                   registryVars, executorVars,
                   requestVars>>

NextGraph ==
    \/ ProcessQueryResponse
    \/ RouterNode
    \/ SchemaDiscoveryNode
    \/ SqlGeneratorNode
    \/ ValidatorNode
    \/ ExecutorNode
    \/ SummarizerNode

SpecGraph == InitGraph /\ [][NextGraph]_vars

\* how often node ran in the run so far
Runs(node) == Cardinality({i \in DOMAIN g_path : g_path[i] = node})

\* C1: a run that is over has reached END, after at most 2 * max_retries + 4 node
\* executions of which at most max_retries are executions of sql_generator.
C1_RunReachesEnd ==
    /\ Runs("sql_generator") <= g_state.max_retries
    /\ Len(g_path) <= 2 * g_state.max_retries + 4
    /\ g_node = END \/ ENABLED NextGraph

\* C2: retry_count never exceeds max_retries + 1 in a run that starts with 0.
C2_RetryCountBounded ==
    g_node # "idle" => g_state.retry_count <= g_state.max_retries + 1

\* the whole budget, the largest of the model, is used up
C2_Witness ==
    /\ g_node = END
    /\ g_state.max_retries = MaxRetryBound
    /\ g_state.retry_count = g_state.max_retries
    /\ Runs("sql_generator") = g_state.max_retries

\* C4: a run of intent query that reached END has (valid SQL, results and an
\* answer) or (an answer and an execution error or validation errors).
C4_QueryRunOutcome ==
    (g_node = END /\ g_state.intent = Some("query")) =>
        \/ /\ g_state.sql_is_valid
           /\ g_state.query_results # None
           /\ g_state.final_answer # None
        \/ /\ g_state.final_answer # None
           /\ Truthy(g_state.execution_error) \/ Truthy(g_state.validation_errors)

\* a query run ended after the engine failed unexpectedly on valid SQL
C4_Witness ==
    /\ g_node = END
    /\ g_state.intent = Some("query")
    /\ g_state.sql_is_valid
    /\ g_state.query_results = None
    /\ Runs("executor") = 1

\* C5: the node after the executor is the summarizer, also when the executor
\* marked the SQL invalid, and sql_generator never runs after the executor.
C5_ExecutorThenSummarizer ==
    \A i \in DOMAIN g_path :
        g_path[i] = "executor" =>
            /\ IF i < Len(g_path) THEN g_path[i + 1] = "summarizer"
               ELSE g_node = "summarizer"
            /\ \A j \in DOMAIN g_path : j > i => g_path[j] # "sql_generator"

\* the executor marked the SQL invalid with retries left, and the run ended
C5_Witness ==
    /\ g_node = END
    /\ Runs("executor") = 1
    /\ ~g_state.sql_is_valid
    /\ Truthy(g_state.validation_errors)
    /\ g_state.retry_count < g_state.max_retries

\* how often node ran to completion (returned its update) in the run so far
Completions(node) ==
    Runs(node) - (IF g_node = "raised" /\ g_path[Len(g_path)] = node THEN 1 ELSE 0)

\* C18: at every point of a run retry_count is the number of completions of
\* sql_generator so far, whether they produced SQL or failed.
C18_RetryCountCountsGenerations ==
    g_state.retry_count = Completions("sql_generator")

\* the generator failed once and produced SQL once, the validator ran after each
C18_Witness ==
    /\ g_state.retry_count = 2
    /\ Runs("validator") = 2
    /\ g_state.generated_sql # None
    /\ \E i \in DOMAIN g_path : g_path[i] = "sql_generator" /\ i + 2 \in DOMAIN g_path
                                 /\ g_path[i + 2] = "sql_generator"
    /\ g_node \in {"executor", "summarizer", "sql_generator"}

\* C19: execution_error and a non-null query_results are never set together.
C19_ErrorAndResultsExclusive ==
    ~(g_state.execution_error # None /\ g_state.query_results # None)

\* the executor ran the SQL and the engine timed out: an error and no results
C19_Witness ==
    /\ Runs("executor") = 1
    /\ Runs("validator") >= 1
    /\ g_state.execution_error # None
    /\ g_state.query_results = None
    /\ g_state.validation_errors # None
    /\ ~g_state.sql_is_valid
    /\ g_state.validation_status \in {"valid", "corrected"}

\* C21: a run in which the router answered clarify ends right after the router,
\* with final_answer equal to clarification_question and neither generated_sql nor
\* query_results set.
C21_ClarifyEndsWithQuestion ==
    (g_node = END /\ g_state.intent = Some("clarify")) =>
        /\ g_path = <<"router">>
        /\ g_state.final_answer = g_state.clarification_question
        /\ g_state.generated_sql = None
        /\ g_state.query_results = None

\* the answers that tell the user of a failure: the LLM's answer to the error
\* prompt, or the fallback text of the error branch
FailureNarrations ==
    {Some(<<"response.content to the prompt: ", "error">>),
     Some(<<"I encountered an issue processing your request. ",
            "Could you try rephrasing your question?">>)}

\* the run went from the validator straight to the summarizer
BudgetExhausted ==
    \E i \in DOMAIN g_path :
        /\ g_path[i] = "validator"
        /\ i + 1 \in DOMAIN g_path
        /\ g_path[i + 1] = "summarizer"

\* C22: a run whose validator handed over to the summarizer (budget used up, SQL
\* not valid) ends with a failure narration as final_answer.
C22_ExhaustionNarratesFailure ==
    (g_node = END /\ BudgetExhausted) => g_state.final_answer \in FailureNarrations

\* C23: for a run that ended over the validator -> summarizer edge with
\* sql_is_valid false, validation_status "failed" and a final_answer, POST /query
\* answers 200 with success true and that final_answer; no SQLGenerationError.
C23_ExhaustionAnswers200 ==
    (/\ g_resp # None
     /\ g_node = END
     /\ BudgetExhausted
     /\ ~g_state.sql_is_valid
     /\ g_state.validation_status = "failed"
     /\ g_state.final_answer # None) =>
        /\ Get(g_resp).status_code = 200
        /\ Get(g_resp).success
        /\ Get(g_resp).answer = g_state.final_answer

\* the errors validate_sql answers before it parses anything
ShortCircuitErrors ==
    {Some(<< <<"Maximum retry count exceeded", "">> >>),
     Some(<< <<"No SQL query was generated", "">> >>)}

\* C24: a failed LLM call of sql_generator leaves generated_sql null, validation
\* marked failed and retry_count one higher; the validator that runs next returns
\* before parsing and leaves sql_is_valid false.
C24_GeneratorFailureShortCircuits ==
    [][/\ (g_node = "sql_generator" /\ g_node' = "validator"
                /\ g_state'.generated_sql = None) =>
            /\ g_state'.validation_status = "failed"
            /\ ~g_state'.sql_is_valid
            /\ g_state'.retry_count = g_state.retry_count + 1
       /\ (g_node = "validator" /\ g_node' # "raised" /\ g_state.generated_sql = None) =>
            /\ ~g_state'.sql_is_valid
            /\ g_state'.generated_sql = None
            /\ g_state'.validation_errors \in ShortCircuitErrors]_vars

\* the second generation failed and the validator has answered it
C24_Witness ==
    /\ Len(g_path) >= 2
    /\ g_path[Len(g_path)] = "validator"
    /\ g_path[Len(g_path) - 1] = "sql_generator"
    /\ g_node # "raised"
    /\ g_state.generated_sql = None
    /\ g_state.retry_count = 2
    /\ g_state.validation_status = "invalid"

\* C30: no node raises: a run never ends with an exception that came out of a node.
C30_NoNodeRaises ==
    g_node # "raised"

\* C33: once the router has classified the intent as chat, the run is router,
\* summarizer, END: only the summarizer is still to run, then the run is at END, and
\* generated_sql stays null.
C33_ChatRunPath ==
    g_state.intent = Some("chat") =>
        /\ g_state.generated_sql = None
        /\ \/ g_node = "summarizer" /\ g_path = <<"router">>
           \/ g_node = END /\ g_path = <<"router", "summarizer">>

\* the executor's update is one that the engine's answer produced: rows, or an
\* error message made from what the engine raised
EngineAnswered(update) ==
    \/ update.execution_error = None
    \/ /\ update.execution_error # None
       /\ Get(update.execution_error)[1] \in
             {"Query timed out: ", "Table not found: ", "Query execution failed: "}

\* C34: the executor asks the engine only for a state with non-empty generated_sql
\* and sql_is_valid true, which the validator has just accepted: the executor then
\* runs right after the validator, on the SQL the validator left in the state; on the
\* way router -> executor nothing is executed.
C34_ExecutesOnlyValidatedSql ==
    [][(g_node = "executor" /\ g_path' # g_path /\ EngineAnswered(g_state')) =>
            /\ SqlTruthy(g_state.generated_sql)
            /\ g_state.sql_is_valid
            /\ g_state.validation_status \in {"valid", "corrected"}
            /\ g_path[Len(g_path)] = "validator"
            /\ g_state.generated_sql = MergeValidator(g_state, validate_sql(g_state)).generated_sql
      ]_vars

\* the executor got rows for SQL to which the validator had added the LIMIT
C34_Witness ==
    /\ Len(g_path) >= 2
    /\ g_path[Len(g_path)] = "executor"
    /\ g_path[Len(g_path) - 1] = "validator"
    /\ g_state.validation_status = "corrected"
    /\ g_state.query_results = Some(<<"row">>)

\* C39: in a run of intent summarize the executor, which runs right after the router,
\* has a statement to execute: its update comes from the engine, with query_results
\* non-null unless the engine failed.
C39_SummarizeRunsPredefinedQuery ==
    (g_state.intent = Some("summarize") /\ Len(g_path) >= 2) =>
        /\ g_path[2] = "executor"
        /\ EngineAnswered(g_state)
        /\ g_state.execution_error = None => g_state.query_results # None

\* C38: when sql_generator runs, the schema text it puts in its prompt is the
\* refined_schema_context that schema_discovery produced earlier in the run.
C38_PromptUsesRefinedContext ==
    g_node = "sql_generator" =>
        /\ g_state.refined_schema_context # None
        /\ prompt_schema_context(g_state) = Get(g_state.refined_schema_context)

\* the text of the exception that the engine layer raised, as str(e) gives it
RawEngineTexts == {"unexpected error"}

\* C32: final_answer never contains the raw engine error message or the raw SQL text.
C32_NoRawTextInAnswer ==
    g_state.final_answer # None =>
        \A i \in DOMAIN Get(g_state.final_answer) :
            /\ Get(g_state.final_answer)[i] \notin RawEngineTexts
            /\ g_state.generated_sql # None =>
                  Get(g_state.final_answer)[i] \notin
                      {Text(Get(g_state.generated_sql))[j] :
                          j \in DOMAIN Text(Get(g_state.generated_sql))}

(***************************************************************************)
(* SpecRegistry: threads call get_schema and refresh_schema on one         *)
(* registry while the clock advances.                                       *)
(***************************************************************************)
InitRegistry ==
    /\ reg_obj = NewRegistry
    /\ reg_th = [t \in Threads |-> IdleThread]
    /\ reg_now = 0
    /\ reg_committed = EmptyCache
    /\ IdleValidator /\ IdleRouting /\ IdleGraph /\ IdleExecutor /\ IdleRequests

OtherVars == <<validatorVars, routingVars, graphVars, executorVars, requestVars>>

\* get_schema testing is_stale and calling refresh_schema inside "with self._cache_lock"
CallGetSchemaUnderCacheLock(t) ==
    /\ reg_th[t].pc = "idle"
    /\ CacheLockFree(reg_obj, t)
    /\ reg_obj' = [reg_obj EXCEPT !.cache_lock = t]
    /\ \E force_refresh \in BOOLEAN :
          reg_th' = [reg_th EXCEPT ![t] =
              [IdleThread EXCEPT
                  !.pc = IF force_refresh \/ is_stale(reg_obj, reg_now)
                         THEN "rf_acquire" ELSE "gs_copy",
                  !.ret = "get_schema"]]
    /\ UNCHANGED <<reg_now, reg_committed, OtherVars>>

\* get_schema(force_refresh): the test "force_refresh or self.is_stale"
CallGetSchema(t) ==
    /\ reg_th[t].pc = "idle"
    /\ \E force_refresh \in BOOLEAN :
          reg_th' = [reg_th EXCEPT ![t] =
              [IdleThread EXCEPT
                  !.pc = IF force_refresh \/ is_stale(reg_obj, reg_now)
                         THEN "rf_acquire" ELSE "gs_lock",
                  !.ret = "get_schema"]]
    /\ UNCHANGED <<reg_obj, reg_now, reg_committed, OtherVars>>

\* refresh_schema() called directly
CallRefresh(t) ==
    /\ reg_th[t].pc = "idle"
    /\ reg_th' = [reg_th EXCEPT ![t] = [IdleThread EXCEPT !.pc = "rf_acquire"]]
    /\ UNCHANGED <<reg_obj, reg_now, reg_committed, OtherVars>>

\* with self._refresh_lock: new_schemas = {}
RfAcquire(t) ==
    /\ reg_th[t].pc = "rf_acquire"
    /\ RefreshLockFree(reg_obj, t)
    /\ reg_obj' = [reg_obj EXCEPT !.refresh_lock = t]
    /\ reg_th' = [reg_th EXCEPT ![t].pc = "rf_discover", ![t].new_schemas = <<>>,
                                ![t].outcomes = <<>>, ![t].src = 1,
                                ![t].first = Len(reg_obj.sources)]
    /\ UNCHANGED <<reg_now, reg_committed, OtherVars>>

\* one round of "for source in self._sources": discovery, or its exception logged
RfDiscover(t) ==
    /\ reg_th[t].pc = "rf_discover"
    /\ reg_th[t].src <= Len(reg_obj.sources)
    /\ \E d \in Discoveries(reg_obj.sources[reg_th[t].src]) :
          reg_th' = [reg_th EXCEPT
              ![t].new_schemas = DiscoverInto(@, d),
              ![t].outcomes = Append(@, d),
              ![t].src = @ + 1]
    /\ UNCHANGED <<reg_obj, reg_now, reg_committed, OtherVars>>

\* the end of "for source in self._sources": the list has no further element
RfLoopExit(t) ==
    /\ reg_th[t].pc = "rf_discover"
    /\ reg_th[t].src > Len(reg_obj.sources)
    /\ reg_th' = [reg_th EXCEPT ![t].pc = "rf_cache_lock"]
    /\ UNCHANGED <<reg_obj, reg_now, reg_committed, OtherVars>>

\* with self._cache_lock (in refresh_schema)
RfCacheLock(t) ==
    /\ reg_th[t].pc = "rf_cache_lock"
    /\ CacheLockFree(reg_obj, t)
    /\ reg_obj' = [reg_obj EXCEPT !.cache_lock = t]
    /\ reg_th' = [reg_th EXCEPT ![t].pc = "rf_clear"]
    /\ UNCHANGED <<reg_now, reg_committed, OtherVars>>

\* self._cache.clear()
RfClear(t) ==
    /\ reg_th[t].pc = "rf_clear"
    /\ reg_obj' = [reg_obj EXCEPT !.cache = EmptyCache]
    /\ reg_th' = [reg_th EXCEPT ![t].pc = "rf_insert", ![t].ins = 1]
    /\ UNCHANGED <<reg_now, reg_committed, OtherVars>>

\* one round of "for name, schema in new_schemas.items(): self._cache[name] = schema"
RfInsert(t) ==
    /\ reg_th[t].pc = "rf_insert"
    /\ reg_th[t].ins <= Len(reg_th[t].new_schemas)
    /\ reg_obj' = [reg_obj EXCEPT !.cache =
                  CachePut(@, reg_th[t].new_schemas[reg_th[t].ins][1],
                           reg_th[t].new_schemas[reg_th[t].ins][2], reg_now)]
    /\ reg_th' = [reg_th EXCEPT ![t].ins = @ + 1]
    /\ UNCHANGED <<reg_now, reg_committed, OtherVars>>

\* the end of "with self._cache_lock" in refresh_schema: the new map is in place
RfCacheUnlock(t) ==
    /\ reg_th[t].pc = "rf_insert"
    /\ reg_th[t].ins > Len(reg_th[t].new_schemas)
    /\ reg_obj' = [reg_obj EXCEPT !.cache_lock = "free"]
    /\ reg_committed' = reg_obj.cache
    /\ reg_th' = [reg_th EXCEPT ![t].pc = "rf_register"]
    /\ UNCHANGED <<reg_now, OtherVars>>

\* self._register_tables_with_duckdb(new_schemas)
RfRegister(t) ==
    /\ reg_th[t].pc = "rf_register"
    /\ reg_obj' = [reg_obj EXCEPT !.views =
                  @ \cup {reg_th[t].new_schemas[i][1] : i \in DOMAIN reg_th[t].new_schemas}]
    /\ reg_th' = [reg_th EXCEPT ![t].pc = "rf_stamp"]
    /\ UNCHANGED <<reg_now, reg_committed, OtherVars>>

\* self._last_refresh = datetime.now(); self._initialized = True
RfStamp(t) ==
    /\ reg_th[t].pc = "rf_stamp"
    /\ reg_obj' = [reg_obj EXCEPT !.last_refresh = Some(reg_now), !.initialized = TRUE]
    /\ reg_th' = [reg_th EXCEPT ![t].pc = "rf_return"]
    /\ UNCHANGED <<reg_now, reg_committed, OtherVars>>

\* return self.get_state() (which copies under the cache lock), then the end of
\* "with self._refresh_lock"
RfReturn(t) ==
    /\ reg_th[t].pc = "rf_return"
    /\ CacheLockFree(reg_obj, t)
    /\ reg_obj' = [reg_obj EXCEPT !.refresh_lock = "free"]
    /\ reg_th' = [reg_th EXCEPT ![t] =
          [IdleThread EXCEPT
              !.pc = IF reg_th[t].ret = "get_schema" THEN "gs_lock" ELSE "idle",
              !.ret = reg_th[t].ret]]
    /\ UNCHANGED <<reg_now, reg_committed, OtherVars>>

\* with self._cache_lock (in get_schema)
GsLock(t) ==
    /\ reg_th[t].pc = "gs_lock"
    /\ CacheLockFree(reg_obj, t)
    /\ reg_obj' = [reg_obj EXCEPT !.cache_lock = t]
    /\ reg_th' = [reg_th EXCEPT ![t].pc = "gs_copy"]
    /\ UNCHANGED <<reg_now, reg_committed, OtherVars>>

\* return dict(self._cache), and the end of "with self._cache_lock"
GsCopy(t) ==
    /\ reg_th[t].pc = "gs_copy"
    /\ reg_obj' = [reg_obj EXCEPT !.cache_lock = "free"]
    /\ reg_th' = [reg_th EXCEPT ![t] =
          [IdleThread EXCEPT !.snap = Some(Visible(reg_obj.cache, reg_now)),
                             !.base = Visible(reg_committed, reg_now)]]
    /\ UNCHANGED <<reg_now, reg_committed, OtherVars>>

\* add_source(source): self._sources.append(source); self._initialized = False
add_source ==
    /\ Len(reg_obj.sources) < Len(Sources)
    /\ reg_obj' = [reg_obj EXCEPT !.sources = Append(@, Sources[Len(@) + 1]),
                                  !.initialized = FALSE]
    /\ UNCHANGED <<reg_th, reg_now, reg_committed, OtherVars>>

\* time passes
Tick ==
    /\ reg_now < MaxTime
    /\ reg_now' = reg_now + 1
    /\ UNCHANGED <<reg_obj, reg_th, reg_committed, OtherVars>>

NextRegistry ==
    \/ \E t \in Threads :
          \/ CallGetSchema(t) \/ CallRefresh(t)
          \/ RfAcquire(t) \/ RfDiscover(t) \/ RfLoopExit(t) \/ RfCacheLock(t)
          \/ RfClear(t)
          \/ RfInsert(t) \/ RfCacheUnlock(t) \/ RfRegister(t) \/ RfStamp(t)
          \/ RfReturn(t) \/ GsLock(t) \/ GsCopy(t)
    \/ add_source
    \/ Tick

SpecRegistry == InitRegistry /\ [][NextRegistry]_vars

Refreshing ==
    {t \in Threads : reg_th[t].pc \in {"rf_discover", "rf_cache_lock", "rf_clear", "rf_insert",
                                       "rf_register", "rf_stamp", "rf_return"}}

\* C11: at most one thread is inside refresh_schema's discovery and install steps at
\* any time, and it is the thread that holds the refresh lock.
C11_SingleRefreshAtATime ==
    /\ Cardinality(Refreshing) <= 1
    /\ \A t \in Refreshing : reg_obj.refresh_lock = t

\* one thread is discovering its second source while the other has called
\* refresh_schema and waits for the refresh lock
C11_Witness ==
    \E t \in Threads, u \in Threads :
        /\ t # u
        /\ reg_th[t].pc = "rf_discover"
        /\ reg_th[t].src = 2
        /\ reg_th[u].pc = "rf_acquire"
        /\ reg_th[u].ret = "caller"

\* the names of the tables that the sources whose discovery succeeded gave
TablesOf(outcomes) ==
    UNION {{outcomes[i].tables[j][1] : j \in DOMAIN outcomes[i].tables} :
              i \in {k \in DOMAIN outcomes : outcomes[k].ok}}

\* the threads whose refresh has installed its map and not yet returned
Installed ==
    {t \in Threads : reg_th[t].pc \in {"rf_register", "rf_stamp", "rf_return"}}

WaitsForRefreshOf(t, u) ==
    /\ t # u
    /\ reg_th[t].ret = "get_schema"
    /\ \/ reg_th[t].pc = "rf_acquire" /\ reg_obj.refresh_lock = u
       \/ /\ reg_th[t].pc = "gs_lock"
          /\ reg_obj.cache_lock = u
          /\ reg_th[u].pc \in {"rf_clear", "rf_insert"}

\* C12: a reader never waits for a refresh that another thread is running.
C12_ReadersNeverBlocked ==
    \A t \in Threads, u \in Threads : ~WaitsForRefreshOf(t, u)

\* C13: whenever a reader copies the cache, every table of the map that the last
\* refresh installed is in it, however much time has passed since.
C13_ExpiryEvictsNothing ==
    \A t \in Threads :
        reg_th[t].pc = "gs_copy" =>
            DOMAIN Visible(reg_obj.cache, reg_now) = DOMAIN reg_committed

\* C31: a get_schema call made while the registry is marked as needing rediscovery,
\* as add_source leaves it, starts a refresh even when the last refresh is younger
\* than the TTL: no such call goes straight to the copy of the cache.
C31_AddSourceForcesRediscovery ==
    [][\A t \in Threads :
          (reg_th[t].pc = "idle" /\ reg_th'[t].pc = "gs_lock") => reg_obj.initialized
      ]_vars

\* the steps thread t takes inside a call it has made
ThreadStep(t) ==
    \/ RfAcquire(t) \/ RfDiscover(t) \/ RfLoopExit(t) \/ RfCacheLock(t) \/ RfClear(t)
    \/ RfInsert(t) \/ RfCacheUnlock(t) \/ RfRegister(t) \/ RfStamp(t) \/ RfReturn(t)
    \/ GsLock(t) \/ GsCopy(t)

\* the owner of the lock thread t stands in front of ("free" when t waits for none)
LockWanted(t) ==
    IF reg_th[t].pc = "rf_acquire" THEN reg_obj.refresh_lock
    ELSE IF reg_th[t].pc \in {"rf_cache_lock", "rf_return", "gs_lock"} THEN reg_obj.cache_lock
    ELSE "free"

\* C37: the registry cannot deadlock: no thread waits for the refresh lock while it
\* holds the cache lock or the refresh lock itself, a lock is held only by a thread
\* inside a call, and every thread inside a call can either take its next step or
\* waits for a lock whose holder can take its next step.
C37_NoDeadlock ==
    \A t \in Threads :
        /\ reg_th[t].pc = "rf_acquire" =>
              reg_obj.cache_lock # t /\ reg_obj.refresh_lock # t
        /\ reg_th[t].pc = "idle" =>
              reg_obj.cache_lock # t /\ reg_obj.refresh_lock # t
        /\ reg_th[t].pc # "idle" =>
              \/ ENABLED ThreadStep(t)
              \/ \E u \in Threads \ {t} : LockWanted(t) = u /\ ENABLED ThreadStep(u)

\* a refresh that holds the refresh lock waits, in its closing get_state, for the
\* cache lock that a reader holds, while the reader copies the cache
C37_Witness ==
    \E t \in Threads, u \in Threads :
        /\ t # u
        /\ reg_th[t].pc = "rf_return"
        /\ reg_obj.refresh_lock = t
        /\ reg_obj.cache_lock = u
        /\ reg_th[u].pc = "gs_copy"

\* C35: every table a reader is about to copy from the cache is already registered
\* as a view in the engine.
C35_VisibleTablesAreViews ==
    \A t \in Threads :
        reg_th[t].pc = "gs_copy" =>
            DOMAIN Visible(reg_obj.cache, reg_now) \subseteq reg_obj.views

\* C36: whenever is_stale is false, the map a reader copies holds exactly the tables
\* the most recent refresh installed.
C36_FreshRegistryHoldsInstalledTables ==
    \A t \in Threads :
        (reg_th[t].pc = "gs_copy" /\ ~is_stale(reg_obj, reg_now)) =>
            DOMAIN Visible(reg_obj.cache, reg_now) = DOMAIN reg_committed

(***************************************************************************)
(* SpecExecutor: two execute_query calls run at the same time.  Each hands *)
(* _execute_sync to the thread pool (or runs it inline when a query_runner *)
(* was injected); the pool tasks use the one connection that               *)
(* DuckDBConnector.get_connection returns.                                 *)
(***************************************************************************)
ExecCalls == {"e1", "e2"}

\* executor.py: MAX_RESULT_ROWS
MAX_RESULT_ROWS == 1000

\* the Python values DuckDB's fetchall hands back, by type; "nan", "inf" and "-inf"
\* are the float values of that name
FloatValues == {"float", "nan", "inf", "-inf"}

\* one row of the table sales: column name |-> the Python value fetchall gives
SalesRow ==
    [sku |-> "str", qty |-> "int", active |-> "bool", note |-> "None",
     price |-> "float", ratio |-> "nan", growth |-> "inf", loss |-> "-inf",
     amount |-> "Decimal", day |-> "date", sold_at |-> "datetime", image |-> "bytes"]

\* the number of rows in the table sales
SalesRowCount == MAX_RESULT_ROWS + 1

\* _sanitize_value(value)
_sanitize_value(value) ==
    IF value = "None" THEN "None"
    ELSE IF value \in FloatValues
    THEN IF value \in {"nan", "inf", "-inf"} THEN "None" ELSE value
    ELSE IF value \in {"numpy.int64"} THEN "int"
    ELSE IF value \in {"date", "datetime"} THEN "str"
    ELSE IF value \in {"Decimal"} THEN "float"
    ELSE value

\* _sanitize_row(row)
_sanitize_row(row) == [c \in DOMAIN row |-> _sanitize_value(row[c])]

\* the values json.dumps can write (NaN and the infinities are not JSON)
JsonRepresentable == {"None", "bool", "int", "float", "str"}

\* QueryRunner.rewrite_table_names(sql)
rewrite_table_names(sql) == sql

\* QueryRunner._ensure_limit(sql): the text after the last ")" carries "LIMIT <digits>"
\* exactly when the outermost query has a LIMIT
_ensure_limit(max_rows, sql) ==
    IF sql.limit # NoLimit \/ sql.appended THEN sql ELSE [sql EXCEPT !.limit = max_rows]

\* the SQL the executor is handed: validated SELECTs of an existing table and of a
\* table that is not registered
ExecutedSql ==
    {[verb |-> "SELECT", cte |-> FALSE, table |-> t, col |-> "*", limit |-> l,
      sub |-> FALSE, sublimit |-> NoLimit, sep |-> " ", lower |-> FALSE, tail |-> "none",
      defect |-> "none", appended |-> FALSE] :
        t \in {"sales", "ghost"}, l \in {NoLimit, 50, MAX_RESULT_ROWS + 1}}

\* the state execute_query is called with
ExecState(sql) ==
    [create_initial_state(MAX_RETRIES, <<>>, <<>>) EXCEPT
        !.generated_sql = Some(sql), !.sql_is_valid = TRUE, !.validation_status = "valid"]

\* the connection holds no result set
NoResult == [of |-> "none", n |-> 0, open |-> FALSE]

NewExecCall(sql, injected) ==
    [pc |-> "start", wk |-> "none", sql |-> sql, injected |-> injected,
     rows |-> None, result |-> None, update |-> None]

InitExecutor ==
    /\ x_req \in [ExecCalls -> {NewExecCall(s, i) : s \in ExecutedSql, i \in BOOLEAN}]
    /\ x_conn = NoResult
    /\ IdleValidator /\ IdleRouting /\ IdleGraph /\ IdleRegistry /\ IdleRequests

ExecutorOthers == <<validatorVars, routingVars, graphVars, registryVars, requestVars>>

\* the event loop runs one coroutine at a time: while a call with an injected
\* query_runner is inside _execute_sync, no other call's coroutine takes a step
OnLoop(e) ==
    \A o \in ExecCalls \ {e} : ~(x_req[o].injected /\ x_req[o].pc = "waiting")

\* execute_query up to the hand-over: run_in_executor queues _execute_sync on the pool;
\* with an injected query_runner the coroutine runs _execute_sync itself
ExecuteQueryCall(e) ==
    /\ OnLoop(e)
    /\ x_req[e].pc = "start"
    /\ x_req' = [x_req EXCEPT ![e].pc = "waiting",
                              ![e].wk = IF x_req[e].injected THEN "running" ELSE "queued"]
    /\ UNCHANGED <<x_conn, ExecutorOthers>>

\* a pool thread takes the task (max_workers = 4, so a thread is free)
WkBegin(e) ==
    /\ x_req[e].wk = "queued"
    /\ x_req' = [x_req EXCEPT ![e].wk = "running"]
    /\ UNCHANGED <<x_conn, ExecutorOthers>>

\* QueryRunner.execute up to connector.execute: conn.execute(final_sql) replaces the
\* connection's result set; a statement on an unknown table raises, and what the
\* connection holds after that is either the old result set or none
WkExecute(e) ==
    /\ x_req[e].wk = "running"
    /\ LET final_sql == _ensure_limit(MAX_RESULT_ROWS, rewrite_table_names(x_req[e].sql))
       IN IF final_sql.table = "sales"
          THEN /\ x_conn' = [of |-> e,
                             n |-> IF SalesRowCount < final_sql.limit
                                   THEN SalesRowCount ELSE final_sql.limit,
                             open |-> TRUE]
               /\ x_req' = [x_req EXCEPT ![e].wk = "executed"]
          ELSE /\ x_conn' \in {x_conn, NoResult}
               /\ x_req' = [x_req EXCEPT ![e].wk = "failed"]
    /\ UNCHANGED ExecutorOthers

\* connector.execute_fetchall: result.fetchall() reads the result set the connection
\* holds now; on a result set already read, or on none, it gives no rows or raises
WkFetchall(e) ==
    /\ x_req[e].wk = "executed"
    /\ IF x_conn.open
       THEN /\ x_req' = [x_req EXCEPT ![e].wk = "fetched",
                                      ![e].rows = Some([n |-> x_conn.n, of |-> x_conn.of])]
            /\ x_conn' = [x_conn EXCEPT !.open = FALSE]
       ELSE /\ \/ x_req' = [x_req EXCEPT ![e].wk = "fetched",
                                         ![e].rows = Some([n |-> 0, of |-> x_conn.of])]
               \/ x_req' = [x_req EXCEPT ![e].wk = "failed"]
            /\ UNCHANGED x_conn
    /\ UNCHANGED ExecutorOthers

\* QueryRunner.execute from conn.description on, and the rest of _execute_sync: the
\* column names are those of the result set the connection holds now, the rows are
\* zipped with them and sanitized
WkDescribe(e) ==
    /\ x_req[e].wk = "fetched"
    /\ LET rows == Get(x_req[e].rows)
           row == IF x_conn.of = "none" THEN <<>> ELSE SalesRow
       IN x_req' = [x_req EXCEPT
                ![e].wk = "done",
                ![e].result = Some([n |-> rows.n, row |-> _sanitize_row(row),
                                    rows_of |-> rows.of, cols_of |-> x_conn.of])]
    /\ UNCHANGED <<x_conn, ExecutorOthers>>

\* execute_query after _execute_sync returned: the success update
ExecuteQueryReturn(e) ==
    /\ OnLoop(e)
    /\ x_req[e].pc = "waiting"
    /\ x_req[e].wk = "done"
    /\ LET result == Get(x_req[e].result)
       IN x_req' = [x_req EXCEPT
                ![e].pc = "returned",
                ![e].update = Some(ExecutorUpdate(ExecState(x_req[e].sql),
                                                  Some(result), result.n, None))]
    /\ UNCHANGED <<x_conn, ExecutorOthers>>

\* execute_query after _execute_sync raised ExecutionError
ExecuteQueryFailed(e) ==
    /\ OnLoop(e)
    /\ x_req[e].pc = "waiting"
    /\ x_req[e].wk = "failed"
    /\ x_req' = [x_req EXCEPT
            ![e].pc = "returned",
            ![e].update = Some(execute_query(ExecState(x_req[e].sql),
                                             [kind |-> "ExecutionError", data |-> <<>>]))]
    /\ UNCHANGED <<x_conn, ExecutorOthers>>

\* the pool task's states in which _execute_sync is running on a pool thread
Running == {"running", "executed", "fetched"}

\* asyncio.wait_for expires: the awaited future is cancelled and execute_query returns
\* the timeout update; a task still in the pool's queue is cancelled with it, a task
\* that a pool thread already runs is not touched
ExecuteQueryTimeout(e) ==
    /\ OnLoop(e)
    /\ x_req[e].pc = "waiting"
    /\ ~x_req[e].injected
    /\ x_req[e].wk \in {"queued"} \cup Running
    /\ x_req' = [x_req EXCEPT
            ![e].pc = "returned",
            ![e].wk = IF x_req[e].wk = "queued" THEN "cancelled" ELSE x_req[e].wk,
            ![e].update = Some(execute_query(ExecState(x_req[e].sql),
                                             [kind |-> "TimeoutError", data |-> <<>>]))]
    /\ UNCHANGED <<x_conn, ExecutorOthers>>

NextExecutor ==
    \E e \in ExecCalls :
        \/ ExecuteQueryCall(e) \/ WkBegin(e) \/ WkExecute(e) \/ WkFetchall(e)
        \/ WkDescribe(e) \/ ExecuteQueryReturn(e) \/ ExecuteQueryFailed(e)
        \/ ExecuteQueryTimeout(e)

SpecExecutor == InitExecutor /\ [][NextExecutor]_vars

\* the calls that returned the timeout update
TimedOut ==
    {e \in ExecCalls :
        /\ x_req[e].update # None
        /\ Get(x_req[e].update).execution_error =
              Some(_format_error_for_llm("timeout", "Query exceeded 30.0s timeout"))}

\* C25: once execute_query has returned the timeout error (execution_error carries the
\* timeout message, query_results is null), the query it started is no longer running.
C25_TimeoutAbortsQuery ==
    \A e \in TimedOut :
        /\ Get(x_req[e].update).query_results = None
        /\ x_req[e].wk \notin Running

\* the calls that returned rows
ReturnedRows ==
    {e \in ExecCalls :
        x_req[e].update # None /\ Get(x_req[e].update).query_results # None}

\* C26: query_results never has more than MAX_RESULT_ROWS rows, whatever LIMIT the
\* executed SQL carries.
C26_AtMostMaxRows ==
    \A e \in ReturnedRows :
        Get(Get(x_req[e].update).query_results).n <= MAX_RESULT_ROWS

\* C27: every cell of the rows in query_results is JSON-representable.
C27_CellsJsonRepresentable ==
    \A e \in ReturnedRows :
        LET row == Get(Get(x_req[e].update).query_results).row
        IN \A c \in DOMAIN row : row[c] \in JsonRepresentable

\* C28: the rows and the column names a call returns come from the statement that
\* this call executed.
C28_RowsFromOwnStatement ==
    \A e \in ReturnedRows :
        LET data == Get(Get(x_req[e].update).query_results)
        IN data.rows_of = e /\ data.cols_of = e

(***************************************************************************)
(* SpecRequests: two POST /query requests are served by the event loop at  *)
(* the same time.  process_query takes the thread id from the request and  *)
(* awaits graph.ainvoke under it; every node that ran writes its update to *)
(* the state the checkpointer keeps for that thread id.                    *)
(***************************************************************************)
Requests == {"p1", "p2"}

\* str(uuid.uuid4()): a fresh identifier, different for every request
uuid4(p) == IF p = "p1" THEN "uuid-p1" ELSE "uuid-p2"

\* the session ids a request carries in its body and in the X-Session-ID header
BodySessionIds == {None, Some(""), Some("s1")}

HeaderSessionIds == {None, Some("s1"), Some("s2")}

ThreadIds == {"s1", "s2"} \cup {uuid4(p) : p \in Requests}

\* get_thread_id(session_id, x_session_id) of request p
get_thread_id(session_id, x_session_id, p) ==
    IF session_id # None /\ Get(session_id) # "" THEN Get(session_id)
    ELSE IF x_session_id # None /\ Get(x_session_id) # "" THEN Get(x_session_id)
    ELSE uuid4(p)

\* the nodes graph.ainvoke runs for a question that is answered from the data
RunNodes ==
    <<"router", "schema_discovery", "sql_generator", "validator", "executor", "summarizer">>

InitRequests ==
    /\ q_req \in [Requests -> {[pc |-> "arrived", session_id |-> b, x_session_id |-> h,
                                thread_id |-> "", step |-> 1] :
                                    b \in BodySessionIds, h \in HeaderSessionIds}]
    /\ q_store = [t \in ThreadIds |-> <<>>]
    /\ IdleValidator /\ IdleRouting /\ IdleGraph /\ IdleRegistry /\ IdleExecutor

RequestsOthers == <<validatorVars, routingVars, graphVars, registryVars, executorVars>>

\* process_query up to "await graph.ainvoke(initial_state, config)": the thread id is
\* computed and the run starts under it, whatever else runs under the same id
ProcessQueryInvoke(p) ==
    /\ q_req[p].pc = "arrived"
    /\ q_req' = [q_req EXCEPT
            ![p].pc = "running",
            ![p].thread_id = get_thread_id(q_req[p].session_id, q_req[p].x_session_id, p)]
    /\ UNCHANGED <<q_store, RequestsOthers>>

\* one node of the run finishes: its update is written to the thread's state
NodeUpdate(p) ==
    /\ q_req[p].pc = "running"
    /\ q_req[p].step <= Len(RunNodes)
    /\ q_store' = [q_store EXCEPT
            ![q_req[p].thread_id] = Append(@, <<p, RunNodes[q_req[p].step]>>)]
    /\ q_req' = [q_req EXCEPT ![p].step = @ + 1]
    /\ UNCHANGED RequestsOthers

\* graph.ainvoke returns and process_query answers
ProcessQueryReturn(p) ==
    /\ q_req[p].pc = "running"
    /\ q_req[p].step > Len(RunNodes)
    /\ q_req' = [q_req EXCEPT ![p].pc = "answered"]
    /\ UNCHANGED <<q_store, RequestsOthers>>

NextRequests ==
    \E p \in Requests : ProcessQueryInvoke(p) \/ NodeUpdate(p) \/ ProcessQueryReturn(p)

SpecRequests == InitRequests /\ [][NextRequests]_vars

\* the requests whose run is in progress
ActiveRuns == {p \in Requests : q_req[p].pc = "running"}

\* C29: at most one run is active per thread id at any time.
C29_OneRunPerThread ==
    \A p \in ActiveRuns, o \in ActiveRuns :
        p # o => q_req[p].thread_id # q_req[o].thread_id

====
